---------------------------- MODULE Spec2Model ----------------------------
(***************************************************************************)
(* Model of the SenseSpace MiniApp SDK client (src/src/core.ts).           *)
(*                                                                         *)
(* A client is constructed from a config (SenseSpaceSDK.constructor) and   *)
(* then serves getUserProfile calls.  Each call runs HTTPClient.makeRequest*)
(* in three steps separated by its two awaits: the synchronous prefix that *)
(* starts the timeout timer and issues fetch, the continuation after fetch *)
(* settles, and the continuation after response.json() settles.  The timer *)
(* callback (controller.abort()) is a step of its own.                     *)
(*                                                                         *)
(* JavaScript values are encoded as records [t |-> type, v |-> text] so    *)
(* that undefined, null, booleans, strings, numbers and objects stay       *)
(* distinct and truthiness is computed the way the language computes it.   *)
(***************************************************************************)
EXTENDS Integers, Sequences, FiniteSets, TLC

\* ------------------------------------------------------------------ bounds
\* Number of getUserProfile calls issued on the client in one behaviour.
MaxCalls == 1
\* Number of fetches one useUserProfile subscription issues in one behaviour.
MaxFetches == 2
\* Calls issued by the subscriptions that share one client.
MaxSharedCalls == 2
\* Calls of one debounced function, and the clock readings of its timers.
MaxDebounceCalls == 3
MaxTime == 3

\* ------------------------------------------------------- program constants
DEFAULT_ENDPOINT == "api.sensespace.xyz"
DEFAULT_TIMEOUT == 10000

\* -------------------------------------------------------- JavaScript values
Undefined == [t |-> "undefined", v |-> ""]
Null == [t |-> "null", v |-> ""]
JTrue == [t |-> "boolean", v |-> "true"]
JFalse == [t |-> "boolean", v |-> "false"]
Str(s) == [t |-> "string", v |-> s]
Num(n) == [t |-> "number", v |-> ToString(n)]
Obj(id) == [t |-> "object", v |-> id]

\* ToBoolean of ECMAScript: undefined, null, false, "", 0 and NaN are falsy.
Truthy(x) ==
  CASE x.t = "undefined" -> FALSE
    [] x.t = "null" -> FALSE
    [] x.t = "boolean" -> x.v = "true"
    [] x.t = "string" -> x.v # ""
    [] x.t = "number" -> x.v \notin {"0", "NaN"}
    [] OTHER -> TRUE

\* a || b
Or(a, b) == IF Truthy(a) THEN a ELSE b

\* ------------------------------------------------------------------ inputs
\* Configs handed to createSenseSpaceClient.
Tokens == {Undefined, Str(""), Str("tok")}
Endpoints == {Undefined, Str(""), Str("custom.host"), Str("http://custom.host")}
Configs == [token : Tokens, endpoint : Endpoints]

\* userId arguments of getUserProfile.
UserIds == {Undefined, Str(""), Str("u1")}

\* Header records a caller can pass as options.headers.
NoHeaders == [k \in {} |-> ""]
CallerHeaders ==
  { NoHeaders,
    [k \in {"X-Trace"} |-> "t1"],
    [k \in {"Authorization", "X-Trace"} |-> IF k = "Authorization" THEN "Basic abc" ELSE "t1"],
    [k \in {"Content-Type"} |-> "text/plain"] }

\* The options argument: left out (undefined), null, or an object whose
\* timeout and headers may each be left out.
NoOptions == [kind |-> "undefined", hasTimeout |-> FALSE, timeout |-> 0,
              hasHeaders |-> FALSE, headers |-> NoHeaders]
NullOptions == [kind |-> "null", hasTimeout |-> FALSE, timeout |-> 0,
                hasHeaders |-> FALSE, headers |-> NoHeaders]
ObjectOptions ==
  { [kind |-> "object", hasTimeout |-> FALSE, timeout |-> 0,
     hasHeaders |-> FALSE, headers |-> NoHeaders] }
  \cup
  { [kind |-> "object", hasTimeout |-> TRUE, timeout |-> 5000,
     hasHeaders |-> TRUE, headers |-> h] : h \in CallerHeaders }
OptionValues == {NoOptions, NullOptions} \cup ObjectOptions

\* HTTP responses the transport can deliver: status line ...
NoResponse == [status |-> 0, statusText |-> ""]
Responses ==
  { [status |-> 200, statusText |-> "OK"],
    [status |-> 404, statusText |-> "Not Found"],
    [status |-> 502, statusText |-> "Bad Gateway"] }

\* ... and body.  kind is what response.json() makes of the body text:
\* "malformed" (not JSON, json() rejects), "null" (the JSON text null),
\* "number" (a JSON primitive) or "object" with the three envelope fields,
\* each of which may be missing (Undefined).
NoBody == [kind |-> "none", success |-> Undefined, message |-> Undefined, data |-> Undefined]
Bodies ==
  { [kind |-> k, success |-> Undefined, message |-> Undefined, data |-> Undefined] :
      k \in {"malformed", "null", "number"} }
  \cup
  [kind : {"object"},
   success : {JTrue, JFalse, Undefined},
   message : {Undefined, Null, Str(""), Str("Request timeout"), Num(42)},
   data : {Undefined, Obj("u1")}]

\* Values a promise can reject with.
NoError == [isError |-> FALSE, name |-> "", message |-> ""]
AbortError == [isError |-> TRUE, name |-> "AbortError", message |-> "The operation was aborted."]
NetworkError == [isError |-> TRUE, name |-> "TypeError", message |-> "Failed to fetch"]
SyntaxError == [isError |-> TRUE, name |-> "SyntaxError", message |-> "Unexpected token < in JSON at position 0"]
NullReadError(f) == [isError |-> TRUE, name |-> "TypeError",
                     message |-> "Cannot read properties of null (reading '" \o f \o "')"]
DestructureError == [isError |-> TRUE, name |-> "TypeError",
                     message |-> "Cannot destructure property 'timeout' of 'options' as it is null."]
NonErrorThrow == [isError |-> FALSE, name |-> "", message |-> "boom"]
FetchRejections == {NetworkError, NonErrorThrow}

\* ------------------------------------------------------------------- state
VARIABLES
  client,  \* the SenseSpaceSDK instance (its HTTPClient fields), or NoClient
  ctor,    \* the last createSenseSpaceClient attempt and whether it threw
  calls    \* the getUserProfile calls issued so far, in issue order

\* One useUserProfile subscription (src/react.ts).
VARIABLES
  mounted,     \* "no" before the first render, "yes" while mounted, "torn" after unmount
  props,       \* the arguments of the latest render
  data,        \* useState: data
  loading,     \* useState: loading
  error,       \* useState: error
  inflight,    \* fetches of the subscription whose client call has not settled
  fetchCount,  \* client.getUserProfile calls the subscription has issued
  interval,    \* the setInterval timer the interval effect holds for its cleanup
  timers,      \* the interval timers that were set and not cleared since
  unhandled,   \* a promise of fetchUserProfile has rejected
  lastEvent,   \* the handler that ran last
  lastOutcome  \* how the client call ended in the latest settlement

\* Several useUserProfile subscriptions that use one client.
VARIABLES
  subs,     \* per subscription: mounted, the latest arguments, the useState cells, the timer
  owner,    \* owner[i]: the subscription whose fetchUserProfile issued calls[i]
  applied   \* applied[i]: fetchUserProfile has run past its await of calls[i]

\* One function returned by debounce(func, delay) (src/utils.ts).
VARIABLES
  delay,      \* the delay argument
  timeoutId,  \* the closure's timeoutId: 0 while undefined
  timeouts,   \* the timers that were set and have neither fired nor been cleared
  now,        \* the clock
  log         \* the calls of the debounced function and the invocations of func, in order

coreVars == <<client, ctor, calls>>
hookVars == <<mounted, props, data, loading, error, inflight, fetchCount, interval,
              timers, unhandled, lastEvent, lastOutcome>>
subsVars == <<subs, owner, applied>>
debounceVars == <<delay, timeoutId, timeouts, now, log>>
vars == <<client, ctor, calls, mounted, props, data, loading, error, inflight,
          fetchCount, interval, timers, unhandled, lastEvent, lastOutcome,
          subs, owner, applied, delay, timeoutId, timeouts, now, log>>

NoClient == [exists |-> FALSE, token |-> "", baseURL |-> "", defaultTimeout |-> 0]
NoCtor == [attempted |-> FALSE, config |-> [token |-> Undefined, endpoint |-> Undefined],
           threw |-> FALSE]
NoResult == [success |-> Undefined, message |-> Undefined, data |-> Undefined, error |-> Undefined]

\* --------------------------------------------------------- core.ts helpers
\* (variant: the endpoint is used as the base URL as it is)
HTTPClient_SchemeNotForced(token, endpoint, timeout) ==
  [exists |-> TRUE, token |-> token, baseURL |-> endpoint, defaultTimeout |-> timeout]

\* HTTPClient.constructor
HTTPClient(token, endpoint, timeout) ==
  [exists |-> TRUE, token |-> token, baseURL |-> "https://" \o endpoint,
   defaultTimeout |-> timeout]

\* (variant: only a missing token is refused, an empty one is accepted)
TokenMissing_OnlyUndefined(config) == config.token = Undefined

\* SenseSpaceSDK.constructor: if (!config.token) throw
TokenMissing(config) == ~Truthy(config.token)

\* SenseSpaceSDK.constructor: config.endpoint || DEFAULT_ENDPOINT
EffectiveEndpoint(config) == Or(config.endpoint, Str(DEFAULT_ENDPOINT)).v

\* (variant: only a missing userId is refused, an empty one is sent)
UserIdMissing_OnlyUndefined(userId) == userId = Undefined

\* SenseSpaceSDK.getUserProfile: if (!userId)
UserIdMissing(userId) == ~Truthy(userId)

\* const { timeout = this.defaultTimeout, headers = {} } = options
EffectiveTimeout(c, opts) == IF opts.hasTimeout THEN opts.timeout ELSE c.defaultTimeout
EffectiveHeaders(opts) == IF opts.hasHeaders THEN opts.headers ELSE NoHeaders

\* { 'Authorization': ..., 'Content-Type': ..., ...headers }
DefaultHeaders(c) ==
  [k \in {"Authorization", "Content-Type"} |->
     IF k = "Authorization" THEN "Bearer " \o c.token ELSE "application/json"]

\* (variant: the spread comes first, so the defaults win)
MergeHeaders_DefaultsWin(defaults, headers) ==
  [k \in DOMAIN defaults \cup DOMAIN headers |->
     IF k \in DOMAIN defaults THEN defaults[k] ELSE headers[k]]

MergeHeaders(defaults, headers) ==
  [k \in DOMAIN defaults \cup DOMAIN headers |->
     IF k \in DOMAIN headers THEN headers[k] ELSE defaults[k]]

\* `${this.baseURL}${url}` with url = `/api/miniapps-user/profile/${userId}`
RequestURL(c, userId) == c.baseURL \o "/api/miniapps-user/profile/" \o userId.v

\* response.ok
ResponseOk(resp) == resp.status >= 200 /\ resp.status <= 299

\* Failure results built by the code.
Failure(message, err) ==
  [success |-> JFalse, message |-> message, data |-> Undefined, error |-> err]

ValidationFailure == Failure(Null, Str("User ID is required"))

\* responseData.<f>: a read of a property of the parsed body.  Reading a
\* property of a primitive gives undefined; of null it throws.
BodyField(body, f) ==
  IF body.kind = "object"
    THEN CASE f = "success" -> body.success
           [] f = "message" -> body.message
           [] OTHER -> body.data
    ELSE Undefined

HttpStatusText(resp) == "HTTP " \o ToString(resp.status) \o ": " \o resp.statusText

\* the !response.ok branch
NotOkResult(resp, body) ==
  [success |-> JFalse,
   message |-> Or(BodyField(body, "message"), Null),
   data |-> Undefined,
   error |-> Or(BodyField(body, "message"), Str(HttpStatusText(resp)))]

\* (variant: success is inferred from the 2xx status)
OkResult_StatusDecides(resp, body) ==
  [success |-> JTrue,
   message |-> BodyField(body, "message"),
   data |-> BodyField(body, "data"),
   error |-> Undefined]

\* the 2xx branch: the body's envelope is returned as it is
OkResult(resp, body) ==
  [success |-> BodyField(body, "success"),
   message |-> BodyField(body, "message"),
   data |-> BodyField(body, "data"),
   error |-> Undefined]

\* (variant: an abort is reported like any other Error)
CatchResult_NoAbortCase(e) ==
  IF e.isError
    THEN Failure(Null, Str(e.message))
    ELSE Failure(Null, Str("Unknown error occurred"))

\* the catch block
CatchResult(e) ==
  IF e.isError
    THEN IF e.name = "AbortError"
           THEN Failure(Null, Str("Request timeout"))
           ELSE Failure(Null, Str(e.message))
    ELSE Failure(Null, Str("Unknown error occurred"))

\* What the code after `await response.json()` does with the parsed body.
AfterJson(resp, body) ==
  CASE body.kind = "malformed" -> CatchResult(SyntaxError)
    [] body.kind = "null" ->
         CatchResult(NullReadError(IF ResponseOk(resp) THEN "success" ELSE "message"))
    [] ResponseOk(resp) -> OkResult(resp, body)
    [] OTHER -> NotOkResult(resp, body)

\* ------------------------------------------------------------------ a call
NewCall(userId, opts) ==
  [userId |-> userId, opts |-> opts,
   pc |-> "start", settle |-> "pending",
   timer |-> "none", timerMs |-> 0, aborted |-> FALSE,
   requests |-> 0, reqMethod |-> "", reqURL |-> "", reqHeaders |-> NoHeaders,
   resp |-> NoResponse, body |-> NoBody, thrown |-> NoError,
   result |-> NoResult]

Resolve(call, result) ==
  [call EXCEPT !.pc = "done", !.settle = "resolved", !.result = result]

Reject(call, e) ==
  [call EXCEPT !.pc = "done", !.settle = "rejected", !.thrown = e]

\* makeRequest up to `await fetch(...)`
MakeRequestStart(c, call) ==
  IF call.opts.kind = "null"
    THEN Reject(call, DestructureError)
    ELSE [call EXCEPT
            !.pc = "fetching",
            !.timer = "pending",
            !.timerMs = EffectiveTimeout(c, call.opts),
            !.requests = call.requests + 1,
            !.reqMethod = "GET",
            !.reqURL = RequestURL(c, call.userId),
            !.reqHeaders = MergeHeaders(DefaultHeaders(c), EffectiveHeaders(call.opts))]

\* SenseSpaceSDK.getUserProfile
GetUserProfile(c, userId, opts) ==
  IF UserIdMissing(userId)
    THEN Resolve(NewCall(userId, opts), ValidationFailure)
    ELSE MakeRequestStart(c, NewCall(userId, opts))

\* ------------------------------------------------- useUserProfile: values
\* The request options of a render (options without enabled and
\* refetchInterval): the own properties in insertion order, each with the
\* JSON text of its value.
NoRequestOptions == <<>>
TimeoutThenHeaders == << <<"timeout", "5000">>, <<"headers", "{\"X-Trace\":\"t1\"}">> >>
HeadersThenTimeout == << <<"headers", "{\"X-Trace\":\"t1\"}">>, <<"timeout", "5000">> >>
RequestOptionValues == {NoRequestOptions, TimeoutThenHeaders, HeadersThenTimeout}

\* Arguments of a render.  client is whether a client is supplied;
\* refetchInterval 0 stands for a missing (or zero) interval.
PropsValues ==
  [client : BOOLEAN, userId : {Str(""), Str("u1")}, enabled : BOOLEAN,
   refetchInterval : {0, 1000, 2000}, requestOptions : RequestOptionValues]
NoProps == [client |-> FALSE, userId |-> Undefined, enabled |-> FALSE,
            refetchInterval |-> 0, requestOptions |-> NoRequestOptions]

NoInterval == [active |-> FALSE, ms |-> 0, id |-> 0]

\* Values a client call can throw (or reject with), by the cases
\* formatErrorMessage tells apart: an Error, a string, an object with a
\* message property, anything else.
NoThrown == [kind |-> "none", message |-> Undefined]
ThrownValues ==
  { [kind |-> "Error", message |-> Str("Failed to fetch")],
    [kind |-> "string", message |-> Str("boom")],
    [kind |-> "object", message |-> Num(42)],
    [kind |-> "other", message |-> Undefined] }

\* Results the SDK client resolves to for a non-empty userId and an options
\* object: what makeRequest returns for each response and body, and for each
\* rejection of fetch.
ClientResults ==
  {AfterJson(r, b) : r \in Responses, b \in Bodies}
  \cup {CatchResult(e) : e \in FetchRejections \cup {AbortError}}

\* How `await client.getUserProfile(...)` ends: with a result, or by throwing
\* (a client implementing SenseSpaceClient may throw).
NoOutcome == [kind |-> "none", result |-> NoResult, thrown |-> NoThrown]
Outcomes ==
  {[kind |-> "resolved", result |-> r, thrown |-> NoThrown] : r \in ClientResults}
  \cup {[kind |-> "thrown", result |-> NoResult, thrown |-> e] : e \in ThrownValues}

\* ---------------------------------------------- useUserProfile: helpers
\* String(x)
JsString(x) ==
  CASE x.t = "undefined" -> "undefined"
    [] x.t = "null" -> "null"
    [] x.t = "object" -> "[object Object]"
    [] OTHER -> x.v

\* utils.ts formatErrorMessage
FormatErrorMessage(e) ==
  CASE e.kind = "Error" -> e.message.v
    [] e.kind = "string" -> e.message.v
    [] e.kind = "object" -> JsString(e.message)
    [] OTHER -> "An unknown error occurred"

\* JSON.stringify of a flat object: the properties in insertion order.
RECURSIVE JoinProperties(_)
JoinProperties(o) ==
  IF o = <<>> THEN ""
  ELSE "\"" \o o[1][1] \o "\":" \o o[1][2]
       \o (IF Len(o) > 1 THEN "," ELSE "") \o JoinProperties(Tail(o))

JSONStringify(o) == "{" \o JoinProperties(o) \o "}"

\* (variant: the enabled flag is not looked at)
ShouldFetch_EnabledIgnored(p) == Truthy(p.userId) /\ p.client

\* fetchUserProfile: if (!enabled || !userId || !client) return
ShouldFetch(p) == p.enabled /\ Truthy(p.userId) /\ p.client

\* the dependency list of fetchUserProfile:
\* [client, userId, enabled, JSON.stringify(requestOptions)]
FetchDepsChanged(p, q) ==
  \/ p.client # q.client
  \/ p.userId # q.userId
  \/ p.enabled # q.enabled
  \/ JSONStringify(p.requestOptions) # JSONStringify(q.requestOptions)

\* setInterval returns an id that no live timer has
FreshTimerId(ts) == CHOOSE n \in 1..(Cardinality(ts) + 1) : \A t \in ts : t.id # n

\* the interval effect: if (!refetchInterval || !enabled) return; setInterval.
\* ts are the timers live when the effect runs.
IntervalFor(p, ts) ==
  IF p.refetchInterval # 0 /\ p.enabled
    THEN [active |-> TRUE, ms |-> p.refetchInterval, id |-> FreshTimerId(ts)]
    ELSE NoInterval

\* the dependency list of the interval effect:
\* [refetchInterval, enabled, fetchUserProfile]
IntervalDepsChanged(p, q) ==
  \/ p.refetchInterval # q.refetchInterval
  \/ p.enabled # q.enabled
  \/ FetchDepsChanged(p, q)

\* (variant: the cleanup leaves the timer running)
ClearInterval_TimerLeft(ts, h) == ts

\* the cleanup of the interval effect: clearInterval(interval), for the
\* timer h the effect had set (none when it had returned early)
ClearInterval(ts, h) == {t \in ts : t.id # h.id}

\* The interval effect runs with the arguments p while the timers ts are live.
IntervalEffect(p, ts) ==
  LET h == IntervalFor(p, ts)
  IN /\ interval' = h
     /\ timers' = IF h.active THEN ts \cup {h} ELSE ts

\* (variant: no finally block, loading is left as it was)
OnSettled_NoFinally(o, st) ==
  IF o.kind = "thrown"
    THEN [data |-> Null, loading |-> st.loading,
          error |-> Str(FormatErrorMessage(o.thrown)), rejected |-> FALSE]
  ELSE IF Truthy(o.result.success) /\ Truthy(o.result.data)
    THEN [data |-> o.result.data, loading |-> st.loading, error |-> st.error,
          rejected |-> FALSE]
  ELSE [data |-> Null, loading |-> st.loading,
        error |-> Or(o.result.error, Str("Failed to fetch user profile")),
        rejected |-> FALSE]

\* (variant: no catch block, the exception leaves fetchUserProfile)
OnSettled_NoCatch(o, st) ==
  IF o.kind = "thrown"
    THEN [data |-> st.data, loading |-> FALSE, error |-> st.error, rejected |-> TRUE]
  ELSE IF Truthy(o.result.success) /\ Truthy(o.result.data)
    THEN [data |-> o.result.data, loading |-> FALSE, error |-> st.error, rejected |-> FALSE]
  ELSE [data |-> Null, loading |-> FALSE,
        error |-> Or(o.result.error, Str("Failed to fetch user profile")),
        rejected |-> FALSE]

\* fetchUserProfile after the await: the try, catch and finally blocks applied
\* to the state st = [data, loading, error]
OnSettled(o, st) ==
  IF o.kind = "thrown"
    THEN [data |-> Null, loading |-> FALSE,
          error |-> Str(FormatErrorMessage(o.thrown)), rejected |-> FALSE]
  ELSE IF Truthy(o.result.success) /\ Truthy(o.result.data)
    THEN [data |-> o.result.data, loading |-> FALSE, error |-> st.error, rejected |-> FALSE]
  ELSE [data |-> Null, loading |-> FALSE,
        error |-> Or(o.result.error, Str("Failed to fetch user profile")),
        rejected |-> FALSE]

\* (variant: the error of the previous fetch is not cleared)
FetchUserProfile_ErrorKept(p) ==
  IF ShouldFetch(p)
    THEN /\ loading' = TRUE
         /\ inflight' = inflight + 1
         /\ fetchCount' = fetchCount + 1
         /\ UNCHANGED <<data, error>>
    ELSE UNCHANGED <<data, loading, error, inflight, fetchCount>>

\* fetchUserProfile up to the await, run with the arguments p of the render
\* that created it
FetchUserProfile(p) ==
  IF ShouldFetch(p)
    THEN /\ loading' = TRUE
         /\ error' = Null
         /\ inflight' = inflight + 1
         /\ fetchCount' = fetchCount + 1
         /\ UNCHANGED data
    ELSE UNCHANGED <<data, loading, error, inflight, fetchCount>>

\* The subscription before its first render.
HookIdle ==
  /\ mounted = "no"
  /\ props = NoProps
  /\ data = Null
  /\ loading = FALSE
  /\ error = Null
  /\ inflight = 0
  /\ fetchCount = 0
  /\ interval = NoInterval
  /\ timers = {}
  /\ unhandled = FALSE
  /\ lastEvent = "none"
  /\ lastOutcome = NoOutcome

\* ------------------------------------------- subscriptions sharing a client
Subs == {"A", "B"}

\* The arguments the subscriptions are rendered with.
SharedProps ==
  { [client |-> TRUE, userId |-> Str("u1"), enabled |-> TRUE,
     refetchInterval |-> 1000, requestOptions |-> NoRequestOptions],
    [client |-> TRUE, userId |-> Str("u1"), enabled |-> FALSE,
     refetchInterval |-> 1000, requestOptions |-> NoRequestOptions],
    [client |-> TRUE, userId |-> Str("u2"), enabled |-> TRUE,
     refetchInterval |-> 2000, requestOptions |-> TimeoutThenHeaders] }

\* What the transport answers to the calls of the subscriptions: a profile,
\* or nothing before the timer of the call fires.
SharedResponses == { [status |-> 200, statusText |-> "OK"] }
SharedBodies ==
  { [kind |-> "object", success |-> JTrue, message |-> Undefined, data |-> Obj("u1")] }

NoSub == [mounted |-> "no", props |-> NoProps, data |-> Null, loading |-> FALSE,
          error |-> Null, interval |-> NoInterval]

SubsIdle ==
  /\ subs = [s \in Subs |-> NoSub]
  /\ owner = <<>>
  /\ applied = <<>>

\* The options argument fetchUserProfile passes to client.getUserProfile: the
\* requestOptions object of the render.
RequestOptionsArg(ro) ==
  IF ro = NoRequestOptions
    THEN [kind |-> "object", hasTimeout |-> FALSE, timeout |-> 0,
          hasHeaders |-> FALSE, headers |-> NoHeaders]
    ELSE [kind |-> "object", hasTimeout |-> TRUE, timeout |-> 5000,
          hasHeaders |-> TRUE, headers |-> [k \in {"X-Trace"} |-> "t1"]]

\* How `await client.getUserProfile(...)` ended for a call that is done.
OutcomeOf(call) ==
  IF call.settle = "resolved"
    THEN [kind |-> "resolved", result |-> call.result, thrown |-> NoThrown]
    ELSE [kind |-> "thrown", result |-> NoResult,
          thrown |-> [kind |-> "Error", message |-> Str(call.thrown.message)]]

\* fetchUserProfile of subscription s up to the await, run with the
\* arguments p; sub is the subscription as the render left it.
SubFetchUserProfile(s, p, sub) ==
  IF ShouldFetch(p)
    THEN /\ Len(calls) < MaxSharedCalls
         /\ subs' = [subs EXCEPT ![s] = [sub EXCEPT !.loading = TRUE, !.error = Null]]
         /\ calls' = Append(calls, GetUserProfile(client, p.userId,
                                                  RequestOptionsArg(p.requestOptions)))
         /\ owner' = Append(owner, s)
         /\ applied' = Append(applied, FALSE)
    ELSE /\ subs' = [subs EXCEPT ![s] = sub]
         /\ UNCHANGED <<calls, owner, applied>>

\* ------------------------------------------------------------ debounce
Delays == {1, 2}
DebounceArgs == {"a", "b"}

DebounceIdle ==
  /\ timeoutId = 0
  /\ timeouts = {}
  /\ now = 0
  /\ log = <<>>

\* (variant: the timer of the previous call is left pending)
ClearTimeout_TimerLeft(ts, id) == ts

\* clearTimeout(timeoutId): a no-op for undefined and for a timer that fired
ClearTimeout(ts, id) == {t \in ts : t.id # id}

\* ----------------------------------------------------------------- actions
Init ==
  /\ client = NoClient
  /\ ctor = NoCtor
  /\ calls = <<>>
  /\ HookIdle
  /\ SubsIdle
  /\ delay = 0
  /\ DebounceIdle

\* createSenseSpaceClient(config)
Construct(config) ==
  /\ ~client.exists
  /\ IF TokenMissing(config)
       THEN /\ ctor' = [attempted |-> TRUE, config |-> config, threw |-> TRUE]
            /\ UNCHANGED client
       ELSE /\ ctor' = [attempted |-> TRUE, config |-> config, threw |-> FALSE]
            /\ client' = HTTPClient(config.token.v, EffectiveEndpoint(config), DEFAULT_TIMEOUT)
  /\ UNCHANGED calls
  /\ UNCHANGED <<hookVars, subsVars, debounceVars>>

\* client.getUserProfile(userId, options): the synchronous part of the call
Call(userId, opts) ==
  /\ client.exists
  /\ Len(calls) < MaxCalls
  /\ calls' = Append(calls, GetUserProfile(client, userId, opts))
  /\ UNCHANGED <<client, ctor>>
  /\ UNCHANGED <<hookVars, subsVars, debounceVars>>

\* setTimeout(() => controller.abort(), timeout) fires
TimerFires(i) ==
  /\ calls[i].pc = "fetching"
  /\ calls[i].timer = "pending"
  /\ calls' = [calls EXCEPT ![i].timer = "fired", ![i].aborted = TRUE]
  /\ UNCHANGED <<client, ctor>>
  /\ UNCHANGED <<hookVars, subsVars, debounceVars>>

\* (variant: the timer is left running while the body is read)
FetchResolves_TimerKept(i, resp) ==
  /\ calls[i].pc = "fetching"
  /\ ~calls[i].aborted
  /\ calls' = [calls EXCEPT ![i].pc = "reading", ![i].resp = resp]
  /\ UNCHANGED <<client, ctor>>
  /\ UNCHANGED <<hookVars, subsVars, debounceVars>>

\* fetch resolves with a response: clearTimeout, then response.json() starts
FetchResolves(i, resp) ==
  /\ calls[i].pc = "fetching"
  /\ ~calls[i].aborted
  /\ calls' = [calls EXCEPT ![i].pc = "reading", ![i].timer = "cleared", ![i].resp = resp]
  /\ UNCHANGED <<client, ctor>>
  /\ UNCHANGED <<hookVars, subsVars, debounceVars>>

\* fetch rejects: with AbortError once the signal is aborted, with a
\* transport failure otherwise; the catch block runs
FetchRejects(i, e) ==
  /\ calls[i].pc = "fetching"
  /\ calls[i].aborted <=> e = AbortError
  /\ calls' = [calls EXCEPT
       ![i] = Resolve([@ EXCEPT !.timer = IF @ = "pending" THEN "cleared" ELSE @,
                                !.thrown = e],
                      CatchResult(e))]
  /\ UNCHANGED <<client, ctor>>
  /\ UNCHANGED <<hookVars, subsVars, debounceVars>>

\* response.json() settles and the rest of the try block (or the catch) runs
BodySettles(i, body) ==
  /\ calls[i].pc = "reading"
  /\ calls' = [calls EXCEPT
       ![i] = Resolve([@ EXCEPT !.body = body], AfterJson(calls[i].resp, body))]
  /\ UNCHANGED <<client, ctor>>
  /\ UNCHANGED <<hookVars, subsVars, debounceVars>>

Next ==
  \/ \E config \in Configs : Construct(config)
  \/ \E userId \in UserIds, opts \in OptionValues : Call(userId, opts)
  \/ \E i \in DOMAIN calls : TimerFires(i)
  \/ \E i \in DOMAIN calls, resp \in Responses : FetchResolves(i, resp)
  \/ \E i \in DOMAIN calls, e \in FetchRejections \cup {AbortError} : FetchRejects(i, e)
  \/ \E i \in DOMAIN calls, body \in Bodies : BodySettles(i, body)

Spec == Init /\ [][Next]_vars

\* The same calls under the scheduling the runtime gives: a pending timer
\* fires, and fetch, once its signal is aborted, rejects with AbortError.
\* The server owes nothing: a response or its body may never arrive.
LiveSpec ==
  /\ Init /\ [][Next]_vars
  /\ WF_vars(\E i \in DOMAIN calls : TimerFires(i))
  /\ WF_vars(\E i \in DOMAIN calls : FetchRejects(i, AbortError))

\* ------------------------------------------------ useUserProfile: actions
\* A client made with a token and the default endpoint; the component that
\* uses the hook has not rendered yet.
HookInit ==
  /\ client = HTTPClient("tok", DEFAULT_ENDPOINT, DEFAULT_TIMEOUT)
  /\ ctor = [attempted |-> TRUE, config |-> [token |-> Str("tok"), endpoint |-> Undefined],
             threw |-> FALSE]
  /\ calls = <<>>
  /\ HookIdle
  /\ SubsIdle
  /\ delay = 0
  /\ DebounceIdle

\* First render and its effects: the fetch effect calls fetchUserProfile,
\* the interval effect installs the timer.
Mount(p) ==
  /\ mounted = "no"
  /\ fetchCount < MaxFetches
  /\ mounted' = "yes"
  /\ props' = p
  /\ FetchUserProfile(p)
  /\ IntervalEffect(p, timers)
  /\ lastEvent' = "mount"
  /\ lastOutcome' = NoOutcome
  /\ UNCHANGED <<unhandled, coreVars, subsVars, debounceVars>>

\* A render with new arguments q: the fetch effect runs when fetchUserProfile
\* was re-created; the interval effect is cleaned up and run again when one of
\* its dependencies changed.
Rerender(q) ==
  /\ mounted = "yes"
  /\ fetchCount < MaxFetches
  /\ q # props
  /\ props' = q
  /\ IF FetchDepsChanged(props, q)
       THEN FetchUserProfile(q)
       ELSE UNCHANGED <<data, loading, error, inflight, fetchCount>>
  /\ IF IntervalDepsChanged(props, q)
       THEN IntervalEffect(q, ClearInterval(timers, interval))
       ELSE UNCHANGED <<interval, timers>>
  /\ lastEvent' = "rerender"
  /\ lastOutcome' = NoOutcome
  /\ UNCHANGED <<mounted, unhandled, coreVars, subsVars, debounceVars>>

\* (variant: a tick is skipped while the subscription is loading)
IntervalTick_SkippedWhileLoading ==
  /\ timers # {}
  /\ fetchCount < MaxFetches
  /\ IF loading
       THEN UNCHANGED <<data, loading, error, inflight, fetchCount>>
       ELSE FetchUserProfile(props)
  /\ lastEvent' = "tick"
  /\ lastOutcome' = NoOutcome
  /\ UNCHANGED <<mounted, props, interval, timers, unhandled, coreVars, subsVars, debounceVars>>

\* A live interval timer ticks: its callback calls fetchUserProfile (the
\* effect is run again whenever fetchUserProfile is re-created, so the
\* callback holds the one of the latest arguments).
IntervalTick ==
  /\ timers # {}
  /\ fetchCount < MaxFetches
  /\ FetchUserProfile(props)
  /\ lastEvent' = "tick"
  /\ lastOutcome' = NoOutcome
  /\ UNCHANGED <<mounted, props, interval, timers, unhandled, coreVars, subsVars, debounceVars>>

\* The caller invokes refetch().
Refetch ==
  /\ mounted = "yes"
  /\ fetchCount < MaxFetches
  /\ FetchUserProfile(props)
  /\ lastEvent' = "refetch"
  /\ lastOutcome' = NoOutcome
  /\ UNCHANGED <<mounted, props, interval, timers, unhandled, coreVars, subsVars, debounceVars>>

\* (variant: the state of an unmounted component is still written)
Settle_WritesAfterUnmount(o) ==
  /\ inflight > 0
  /\ inflight' = inflight - 1
  /\ LET after == OnSettled(o, [data |-> data, loading |-> loading, error |-> error])
     IN /\ data' = after.data
        /\ loading' = after.loading
        /\ error' = after.error
        /\ unhandled' = (unhandled \/ after.rejected)
  /\ lastEvent' = "settle"
  /\ lastOutcome' = o
  /\ UNCHANGED <<mounted, props, fetchCount, interval, timers, coreVars, subsVars, debounceVars>>

\* The client call of one in-flight fetch settles and fetchUserProfile runs
\* to its end: it calls setData / setError and setLoading(false) whether or
\* not the component is still mounted, and React drops the state updates of
\* an unmounted component.
Settle(o) ==
  /\ inflight > 0
  /\ inflight' = inflight - 1
  /\ LET after == OnSettled(o, [data |-> data, loading |-> loading, error |-> error])
     IN /\ IF mounted = "yes"
             THEN /\ data' = after.data
                  /\ loading' = after.loading
                  /\ error' = after.error
             ELSE UNCHANGED <<data, loading, error>>
        /\ unhandled' = (unhandled \/ after.rejected)
  /\ lastEvent' = "settle"
  /\ lastOutcome' = o
  /\ UNCHANGED <<mounted, props, fetchCount, interval, timers, coreVars, subsVars, debounceVars>>

\* The component unmounts: the cleanup of the interval effect clears the timer.
Unmount ==
  /\ mounted = "yes"
  /\ mounted' = "torn"
  /\ interval' = NoInterval
  /\ timers' = ClearInterval(timers, interval)
  /\ lastEvent' = "unmount"
  /\ lastOutcome' = NoOutcome
  /\ UNCHANGED <<props, data, loading, error, inflight, fetchCount, unhandled, coreVars, subsVars, debounceVars>>

HookNext ==
  \/ \E p \in PropsValues : Mount(p)
  \/ \E q \in PropsValues : Rerender(q)
  \/ IntervalTick
  \/ Refetch
  \/ \E o \in Outcomes : Settle(o)
  \/ Unmount

HookSpec == HookInit /\ [][HookNext]_vars

\* ------------------------------- actions of subscriptions sharing a client
\* One client, made with a token and the default endpoint; no component has
\* rendered yet.
SharedInit ==
  /\ client = HTTPClient("tok", DEFAULT_ENDPOINT, DEFAULT_TIMEOUT)
  /\ ctor = [attempted |-> TRUE, config |-> [token |-> Str("tok"), endpoint |-> Undefined],
             threw |-> FALSE]
  /\ calls = <<>>
  /\ HookIdle
  /\ SubsIdle
  /\ delay = 0
  /\ DebounceIdle

\* First render of subscription s and its effects.
SubMount(s, p) ==
  /\ subs[s].mounted = "no"
  /\ SubFetchUserProfile(s, p, [subs[s] EXCEPT !.mounted = "yes", !.props = p,
                                               !.interval = IntervalFor(p, {})])
  /\ UNCHANGED <<client, ctor, hookVars, debounceVars>>

\* A render of subscription s with new arguments q.
SubRerender(s, q) ==
  /\ subs[s].mounted = "yes"
  /\ q # subs[s].props
  /\ LET sub == [subs[s] EXCEPT
                   !.props = q,
                   !.interval = IF IntervalDepsChanged(subs[s].props, q)
                                  THEN IntervalFor(q, {}) ELSE @]
     IN IF FetchDepsChanged(subs[s].props, q)
          THEN SubFetchUserProfile(s, q, sub)
          ELSE /\ subs' = [subs EXCEPT ![s] = sub]
               /\ UNCHANGED <<calls, owner, applied>>
  /\ UNCHANGED <<client, ctor, hookVars, debounceVars>>

\* The interval timer of subscription s ticks.
SubTick(s) ==
  /\ subs[s].mounted = "yes"
  /\ subs[s].interval.active
  /\ SubFetchUserProfile(s, subs[s].props, subs[s])
  /\ UNCHANGED <<client, ctor, hookVars, debounceVars>>

\* The caller of subscription s invokes refetch().
SubRefetch(s) ==
  /\ subs[s].mounted = "yes"
  /\ SubFetchUserProfile(s, subs[s].props, subs[s])
  /\ UNCHANGED <<client, ctor, hookVars, debounceVars>>

\* (variant: unmounting aborts the calls of the subscription)
SubUnmount_AbortsCalls(s) ==
  /\ subs[s].mounted = "yes"
  /\ subs' = [subs EXCEPT ![s].mounted = "torn", ![s].interval = NoInterval]
  /\ calls' = [i \in DOMAIN calls |->
                 IF owner[i] = s /\ calls[i].pc = "fetching"
                   THEN [calls[i] EXCEPT !.aborted = TRUE] ELSE calls[i]]
  /\ UNCHANGED <<owner, applied>>
  /\ UNCHANGED <<client, ctor, hookVars, debounceVars>>

\* The component of subscription s unmounts: the cleanup of the interval
\* effect is all that runs.
SubUnmount(s) ==
  /\ subs[s].mounted = "yes"
  /\ subs' = [subs EXCEPT ![s].mounted = "torn", ![s].interval = NoInterval]
  /\ UNCHANGED <<calls, owner, applied>>
  /\ UNCHANGED <<client, ctor, hookVars, debounceVars>>

\* (variant: the state lives in one place that every subscription reads)
SubSettled_OneStateForAll(i) ==
  /\ calls[i].pc = "done"
  /\ ~applied[i]
  /\ applied' = [applied EXCEPT ![i] = TRUE]
  /\ LET s == owner[i]
         after == OnSettled(OutcomeOf(calls[i]),
                            [data |-> subs[s].data, loading |-> subs[s].loading,
                             error |-> subs[s].error])
     IN subs' = [t \in Subs |->
                  IF subs[t].mounted = "yes"
                    THEN [subs[t] EXCEPT !.data = after.data, !.loading = after.loading,
                                         !.error = after.error]
                    ELSE subs[t]]
  /\ UNCHANGED <<calls, owner>>
  /\ UNCHANGED <<client, ctor, hookVars, debounceVars>>

\* calls[i] has settled: fetchUserProfile of the subscription that issued it
\* runs to its end, with the setters of that subscription (dropped by React
\* when it is unmounted).
SubSettled(i) ==
  /\ calls[i].pc = "done"
  /\ ~applied[i]
  /\ applied' = [applied EXCEPT ![i] = TRUE]
  /\ LET s == owner[i]
         after == OnSettled(OutcomeOf(calls[i]),
                            [data |-> subs[s].data, loading |-> subs[s].loading,
                             error |-> subs[s].error])
     IN subs' = IF subs[s].mounted = "yes"
                  THEN [subs EXCEPT ![s].data = after.data, ![s].loading = after.loading,
                                    ![s].error = after.error]
                  ELSE subs
  /\ UNCHANGED <<calls, owner>>
  /\ UNCHANGED <<client, ctor, hookVars, debounceVars>>

SharedNext ==
  \/ \E s \in Subs, p \in SharedProps : SubMount(s, p)
  \/ \E s \in Subs, q \in SharedProps : SubRerender(s, q)
  \/ \E s \in Subs : SubTick(s)
  \/ \E s \in Subs : SubRefetch(s)
  \/ \E s \in Subs : SubUnmount(s)
  \/ \E i \in DOMAIN calls : TimerFires(i)
  \/ \E i \in DOMAIN calls, resp \in SharedResponses : FetchResolves(i, resp)
  \/ \E i \in DOMAIN calls : FetchRejects(i, AbortError)
  \/ \E i \in DOMAIN calls, body \in SharedBodies : BodySettles(i, body)
  \/ \E i \in DOMAIN calls : SubSettled(i)

SharedSpec == SharedInit /\ [][SharedNext]_vars

\* ------------------------------------------------------ debounce: actions
\* debounce(func, delay) has returned the debounced function; it was not
\* called yet.
DebounceInit ==
  /\ client = NoClient
  /\ ctor = NoCtor
  /\ calls = <<>>
  /\ HookIdle
  /\ SubsIdle
  /\ delay \in Delays
  /\ DebounceIdle

\* The debounced function is called with the arguments a:
\* clearTimeout(timeoutId); timeoutId = setTimeout(() => func(...args), delay)
DebouncedCall(a) ==
  /\ Len(SelectSeq(log, LAMBDA e : e.kind = "call")) < MaxDebounceCalls
  /\ LET id == Len(log) + 1
     IN /\ timeouts' = ClearTimeout(timeouts, timeoutId)
                          \cup {[id |-> id, due |-> now + delay, args |-> a]}
        /\ timeoutId' = id
        /\ log' = Append(log, [kind |-> "call", at |-> now, args |-> a, id |-> id])
  /\ UNCHANGED <<delay, now>>
  /\ UNCHANGED <<coreVars, hookVars, subsVars>>

\* A timer that is due fires: its callback invokes func with the arguments
\* of the call that set it.
TimeoutFires(t) ==
  /\ t \in timeouts
  /\ now >= t.due
  /\ timeouts' = timeouts \ {t}
  /\ log' = Append(log, [kind |-> "invoke", at |-> now, args |-> t.args, id |-> t.id])
  /\ UNCHANGED <<delay, timeoutId, now>>
  /\ UNCHANGED <<coreVars, hookVars, subsVars>>

\* Time passes; a due timer may fire late.
TimePasses ==
  /\ now < MaxTime
  /\ now' = now + 1
  /\ UNCHANGED <<delay, timeoutId, timeouts, log>>
  /\ UNCHANGED <<coreVars, hookVars, subsVars>>

DebounceNext ==
  \/ \E a \in DebounceArgs : DebouncedCall(a)
  \/ \E t \in timeouts : TimeoutFires(t)
  \/ TimePasses

DebounceSpec == DebounceInit /\ [][DebounceNext]_vars

\* ------------------------------------------------------------- properties
Done(i) == calls[i].pc = "done"
HasUserId(i) == calls[i].userId \notin {Undefined, Str("")}
CallerHeadersOf(i) == IF calls[i].opts.hasHeaders THEN calls[i].opts.headers ELSE NoHeaders
Got2xx(i) == calls[i].resp.status \in 200..299
GotNon2xx(i) == calls[i].resp # NoResponse /\ calls[i].resp.status \notin 200..299

\* C1: a getUserProfile call whose userId is empty or absent resolves to
\* {success: false, error: "User ID is required"}; it issues no network
\* request and starts no timer.
C1_EmptyUserIdIsRefused ==
  \A i \in DOMAIN calls :
    calls[i].userId \in {Undefined, Str("")} =>
      /\ calls[i].settle = "resolved"
      /\ calls[i].result.success = JFalse
      /\ calls[i].result.error = Str("User ID is required")
      /\ calls[i].requests = 0
      /\ calls[i].timer = "none"

C1_Witness ==
  \E i \in DOMAIN calls :
    calls[i].userId = Str("") /\ calls[i].settle = "resolved" /\ calls[i].requests = 0

\* C2: createSenseSpaceClient throws when config.token is missing or empty,
\* and then no client exists and no call has been made; with a non-empty
\* token it returns a client holding that token.
C2_ConstructionNeedsToken ==
  /\ ctor.attempted /\ ctor.config.token \in {Undefined, Str("")} =>
       ctor.threw /\ ~client.exists /\ calls = <<>>
  /\ ctor.attempted /\ ctor.config.token \notin {Undefined, Str("")} =>
       ~ctor.threw /\ client.exists /\ client.token = ctor.config.token.v
  /\ calls # <<>> => client.exists /\ client.token # ""

C2_Witness ==
  ctor.attempted /\ ctor.config.token = Str("") /\ ctor.threw /\ ~client.exists

\* C3: when the timer of a call (options.timeout, default 10000 ms) fires
\* before the network call settles, the in-flight call is aborted and the
\* call resolves to {success: false, error: "Request timeout"}.
C3_TimeoutAbortsAndReports ==
  \A i \in DOMAIN calls :
    /\ calls[i].timer # "none" =>
         calls[i].timerMs = IF calls[i].opts.hasTimeout THEN calls[i].opts.timeout ELSE 10000
    /\ HasUserId(i) /\ calls[i].timer = "fired" =>
         /\ calls[i].aborted
         /\ calls[i].resp = NoResponse
         /\ Done(i) =>
              /\ calls[i].settle = "resolved"
              /\ calls[i].result.success = JFalse
              /\ calls[i].result.error = Str("Request timeout")

C3_Witness ==
  \E i \in DOMAIN calls :
    /\ calls[i].timer = "fired" /\ calls[i].aborted /\ Done(i)
    /\ calls[i].timerMs = 10000
    /\ calls[i].result.error = Str("Request timeout")

\* C4: getUserProfile never rejects: whatever the userId, the options and
\* the transport outcome, the call resolves to a result, and a call that
\* failed (validation, non-2xx, transport failure, unreadable body, abort)
\* resolves to a result with success = false.
C4_NeverRejects ==
  \A i \in DOMAIN calls :
    /\ calls[i].settle # "rejected"
    /\ Done(i) /\ (~HasUserId(i) \/ GotNon2xx(i) \/ calls[i].thrown # NoError
                   \/ calls[i].body.kind \in {"malformed", "null"}) =>
         calls[i].settle = "resolved" /\ calls[i].result.success = JFalse

\* C5: on a non-2xx response the result has success = false and its error
\* is the server's message when the body carries one, and
\* "HTTP <status>: <statusText>" whenever it carries none.
BodyCarriesMessage(body) ==
  body.kind = "object" /\ body.message \notin {Undefined, Null, Str("")}

C5_Non2xxErrorIsMessageOrStatus ==
  \A i \in DOMAIN calls :
    Done(i) /\ GotNon2xx(i) =>
      /\ calls[i].result.success = JFalse
      /\ calls[i].result.error =
           IF BodyCarriesMessage(calls[i].body)
             THEN calls[i].body.message
             ELSE Str("HTTP " \o ToString(calls[i].resp.status) \o ": "
                      \o calls[i].resp.statusText)

\* The envelope fields of a parsed body; a body that is not an object has none.
EnvelopeOf(body) ==
  IF body.kind = "object"
    THEN [success |-> body.success, message |-> body.message, data |-> body.data]
    ELSE [success |-> Undefined, message |-> Undefined, data |-> Undefined]

PassedThrough(i) ==
  /\ calls[i].result.success = EnvelopeOf(calls[i].body).success
  /\ calls[i].result.message = EnvelopeOf(calls[i].body).message
  /\ calls[i].result.data = EnvelopeOf(calls[i].body).data

\* C6 (as stated): for every 2xx response whose body parses as JSON, the
\* result's success, message and data are the body's success, message and data.
C6_Original ==
  \A i \in DOMAIN calls :
    Done(i) /\ Got2xx(i) /\ calls[i].body.kind \in {"object", "number", "null"} =>
      PassedThrough(i)

\* C6: for every 2xx response whose body parses as a JSON value other than
\* null, the result's success, message and data are the body's success,
\* message and data; the status does not decide success.
C6_PassThroughOfNonNullBody ==
  \A i \in DOMAIN calls :
    Done(i) /\ Got2xx(i) /\ calls[i].body.kind \in {"object", "number"} =>
      PassedThrough(i)

C6_Witness ==
  \E i \in DOMAIN calls :
    /\ Done(i) /\ Got2xx(i) /\ calls[i].body.kind = "object"
    /\ calls[i].body.success = JFalse
    /\ calls[i].result.success = JFalse
    /\ calls[i].result.message = Str("Request timeout")

\* C7: every result with success = false carries an error that is a string.
C7_FailureHasStringError ==
  \A i \in DOMAIN calls :
    calls[i].settle = "resolved" /\ calls[i].result.success = JFalse =>
      calls[i].result.error.t = "string"

\* C8: data is present only when success is true.
C8_DataOnlyOnSuccess ==
  \A i \in DOMAIN calls :
    calls[i].settle = "resolved" /\ calls[i].result.data # Undefined =>
      calls[i].result.success = JTrue

\* C9: the headers of an outgoing request are the two defaults overlaid
\* with options.headers: every caller key is there with the caller's value,
\* and a default stays unless the caller supplies that key.
C9_HeadersAreDefaultsOverlaid ==
  \A i \in DOMAIN calls :
    calls[i].requests > 0 =>
      /\ DOMAIN calls[i].reqHeaders =
           {"Authorization", "Content-Type"} \cup DOMAIN CallerHeadersOf(i)
      /\ \A k \in DOMAIN CallerHeadersOf(i) : calls[i].reqHeaders[k] = CallerHeadersOf(i)[k]
      /\ "Authorization" \notin DOMAIN CallerHeadersOf(i) =>
           calls[i].reqHeaders["Authorization"] = "Bearer " \o client.token
      /\ "Content-Type" \notin DOMAIN CallerHeadersOf(i) =>
           calls[i].reqHeaders["Content-Type"] = "application/json"

C9_Witness ==
  \E i \in DOMAIN calls :
    /\ calls[i].requests > 0
    /\ "Authorization" \in DOMAIN CallerHeadersOf(i)
    /\ calls[i].reqHeaders["Authorization"] = "Basic abc"
    /\ calls[i].reqHeaders["Content-Type"] = "application/json"

\* C10: a getUserProfile call with a non-empty userId issues exactly one
\* network request, whatever its outcome.
C10_ExactlyOneRequest ==
  \A i \in DOMAIN calls : HasUserId(i) => calls[i].requests = 1

\* C11: once a getUserProfile call has resolved, the timer it started is no
\* longer pending (cleared or fired) on every settlement path; the timer is
\* already cleared while the body is read, so no abort fires after return.
C11_NoTimerPendingAfterReturn ==
  \A i \in DOMAIN calls :
    /\ calls[i].settle = "resolved" => calls[i].timer \in {"none", "cleared", "fired"}
    /\ calls[i].settle = "resolved" /\ calls[i].requests > 0 =>
         calls[i].timer \in {"cleared", "fired"}
    /\ calls[i].settle = "resolved" => ~ENABLED TimerFires(i)

C11_Witness ==
  \E i \in DOMAIN calls :
    /\ calls[i].settle = "resolved" /\ calls[i].timer = "cleared"
    /\ calls[i].thrown = NetworkError

\* The scheme of a URL: the text before its first ":".
RECURSIVE ColonAt(_, _)
ColonAt(url, i) ==
  IF i > Len(url) THEN 0
  ELSE IF SubSeq(url, i, i) = ":" THEN i
  ELSE ColonAt(url, i + 1)

UrlScheme(url) == SubSeq(url, 1, ColonAt(url, 1) - 1)

ConfiguredEndpoint ==
  IF ctor.config.endpoint \in {Undefined, Str("")}
    THEN "api.sensespace.xyz"
    ELSE ctor.config.endpoint.v

\* C12: every outgoing request is a GET to
\* https://<endpoint>/api/miniapps-user/profile/<userId>, <endpoint> being the
\* configured endpoint or the default host, and the scheme of that URL is
\* https even when the configured endpoint carries a scheme of its own.
C12_RequestUrl ==
  \A i \in DOMAIN calls :
    calls[i].requests > 0 =>
      /\ calls[i].reqMethod = "GET"
      /\ calls[i].reqURL = "https://" \o ConfiguredEndpoint
                           \o "/api/miniapps-user/profile/" \o calls[i].userId.v
      /\ UrlScheme(calls[i].reqURL) = "https"

C12_Witness ==
  \E i \in DOMAIN calls :
    /\ calls[i].requests > 0
    /\ ctor.config.endpoint = Str("http://custom.host")
    /\ calls[i].reqURL = "https://http://custom.host/api/miniapps-user/profile/u1"

\* C26: a resolved call has the error "Request timeout" exactly when its
\* own timer fired before the network call settled.
C26_TimeoutLiteralMeansTimeout ==
  \A i \in DOMAIN calls :
    Done(i) /\ calls[i].settle = "resolved" =>
      (calls[i].result.error = Str("Request timeout") <=> calls[i].timer = "fired")

\* C28: every call that started its request (non-empty userId, timer set)
\* eventually resolves, whether the transport stalls before the response
\* headers or while the body is read.
C28_EveryCallResolves ==
  \A i \in 1..MaxCalls :
    [](i \in DOMAIN calls /\ calls[i].pc \in {"fetching", "reading"}
         => <>(i \in DOMAIN calls /\ Done(i) /\ calls[i].settle = "resolved"))

\* ------------------------------------------- properties of useUserProfile
GateClosed(p) == ~p.enabled \/ p.userId \in {Undefined, Str("")} \/ ~p.client
FetchIssued == fetchCount' = fetchCount + 1 /\ inflight' = inflight + 1
NoFetchIssued == fetchCount' = fetchCount /\ inflight' = inflight
StateKept == data' = data /\ loading' = loading /\ error' = error
SameContent(a, b) == {a[i] : i \in DOMAIN a} = {b[i] : i \in DOMAIN b}
SettledOk(o) ==
  o.kind = "resolved" /\ o.result.success = JTrue /\ o.result.data \notin {Undefined, Null}

\* C13: while enabled is false, or userId is empty, or no client is supplied,
\* an automatic trigger (mount, dependency change, interval tick) issues no
\* call and leaves data, loading and error as they are; with enabled false no
\* interval timer is live, so no automatic fetch happens until enabled is
\* true again.
C13_ClosedGateNoFetch ==
  /\ [](mounted = "yes" /\ ~props.enabled => ~interval.active)
  /\ [][lastEvent' \in {"mount", "rerender", "tick"} /\ GateClosed(props')
          => NoFetchIssued /\ StateKept]_vars

C13_Witness ==
  /\ lastEvent = "rerender" /\ ~props.enabled /\ props.client /\ props.userId = Str("u1")
  /\ inflight > 0 /\ loading

\* C14: an activation (mount, or a render that changes client, userId,
\* enabled or the content of the request options, with the gate open) issues
\* exactly one fetch; a render with the same client, userId and enabled and
\* request options of the same content issues none.
C14_OneFetchPerActivation ==
  [][/\ lastEvent' = "mount" /\ ~GateClosed(props') => FetchIssued
     /\ lastEvent' = "rerender" /\ ~GateClosed(props')
          /\ (\/ props'.client # props.client
              \/ props'.userId # props.userId
              \/ props'.enabled # props.enabled
              \/ ~SameContent(props'.requestOptions, props.requestOptions))
          => FetchIssued
     /\ lastEvent' = "rerender"
          /\ props'.client = props.client
          /\ props'.userId = props.userId
          /\ props'.enabled = props.enabled
          /\ SameContent(props'.requestOptions, props.requestOptions)
          => NoFetchIssued]_vars

\* C15 (as stated): the state starts as {null, false, null} and becomes
\* {data: null, loading: true, error: null} whenever a fetch starts.
C15_Original ==
  /\ data = Null /\ loading = FALSE /\ error = Null
  /\ [][fetchCount' > fetchCount => data' = Null /\ loading' = TRUE /\ error' = Null]_vars

\* C15: the state starts as {data: null, loading: false, error: null}; when a
\* fetch starts, loading becomes true and error null, and data keeps the
\* value it had (null before the first success).
C15_FetchStartKeepsData ==
  /\ data = Null /\ loading = FALSE /\ error = Null
  /\ [][fetchCount' > fetchCount => data' = data /\ loading' = TRUE /\ error' = Null]_vars

C15_Witness ==
  lastEvent = "refetch" /\ fetchCount >= 2 /\ inflight = 1 /\ loading
  /\ data = Obj("u1") /\ error = Null

\* C16: when a fetch settles with success = true and data, the state right
\* after is {data: that data, loading: false, error: null}, whatever other
\* fetches of the subscription did in between.
C16_SuccessState ==
  [][lastEvent' = "settle" /\ mounted = "yes" /\ SettledOk(lastOutcome')
       => data' = lastOutcome'.result.data /\ loading' = FALSE /\ error' = Null]_vars

\* C17: when a fetch settles without success or data, or the client call
\* throws, the state right after is {data: null, loading: false,
\* error: a string}.
C17_FailureState ==
  [][lastEvent' = "settle" /\ mounted = "yes" /\ ~SettledOk(lastOutcome')
       => data' = Null /\ loading' = FALSE /\ error'.t = "string"]_vars

\* C18: an exception of the client call never leaves fetchUserProfile: no
\* promise of a fetch cycle rejects, and the failure becomes the error string.
C18_NoExceptionEscapes ==
  /\ [](unhandled = FALSE)
  /\ [][lastEvent' = "settle" /\ mounted = "yes" /\ lastOutcome'.kind = "thrown"
          => /\ error' \in {Str("Failed to fetch"), Str("boom"), Str("42"),
                            Str("An unknown error occurred")}
             /\ data' = Null /\ loading' = FALSE]_vars

C18_Witness ==
  /\ lastEvent = "settle" /\ lastOutcome.kind = "thrown" /\ lastOutcome.thrown.kind = "object"
  /\ error = Str("42") /\ ~unhandled

\* C19: refetch() on a subscription with a non-empty userId performs exactly
\* one fetch, whether enabled is true or false.
C19_RefetchIgnoresEnabled ==
  [][lastEvent' = "refetch" /\ props.client /\ props.userId \notin {Undefined, Str("")}
       => FetchIssued]_vars

\* C20 (as stated): with refetchInterval set and enabled true, every interval
\* tick issues exactly one fetch.
C20_Original ==
  [][lastEvent' = "tick" /\ props.refetchInterval # 0 /\ props.enabled => FetchIssued]_vars

\* C20: with refetchInterval set, enabled true, a non-empty userId and a
\* client, the timer is live while the subscription is mounted and every
\* tick issues exactly one fetch, also while earlier fetches are in flight.
C20_OneFetchPerTick ==
  /\ [](mounted = "yes" /\ props.refetchInterval # 0 /\ props.enabled
          => interval.active /\ interval.ms = props.refetchInterval)
  /\ [][lastEvent' = "tick" /\ props.refetchInterval # 0 /\ props.enabled
          /\ props.client /\ props.userId \notin {Undefined, Str("")}
          => FetchIssued]_vars

C20_Witness ==
  lastEvent = "tick" /\ inflight >= 2 /\ fetchCount >= 2 /\ interval.active

\* C21: a subscription has at most one live interval timer, and none when it
\* is not mounted, when enabled is false or when refetchInterval is unset; a
\* render that changes the interval value leaves exactly the one timer of the
\* new value (none when the new value is unset or enabled is false); after
\* teardown no tick happens, so no fetch is issued by one.
C21_OneLiveIntervalTimer ==
  /\ [](Cardinality(timers) <= 1)
  /\ [](mounted # "yes" \/ ~props.enabled \/ props.refetchInterval = 0 => timers = {})
  /\ [][lastEvent' = "rerender" /\ props'.refetchInterval # props.refetchInterval
          => /\ \A t \in timers' : t.ms = props'.refetchInterval
             /\ Cardinality(timers') =
                  IF props'.enabled /\ props'.refetchInterval # 0 THEN 1 ELSE 0]_vars
  /\ [][mounted = "torn" => lastEvent' # "tick"]_vars

C21_Witness ==
  /\ mounted = "torn" /\ lastEvent = "unmount"
  /\ props.enabled /\ props.refetchInterval = 2000
  /\ timers = {} /\ ~interval.active /\ fetchCount >= 1

\* The state a settlement determines by itself: the profile with no error on
\* success, no data and the error string otherwise.
DeterminedBy(o) ==
  IF o.kind = "thrown"
    THEN [data |-> Null, loading |-> FALSE, error |-> Str(FormatErrorMessage(o.thrown))]
  ELSE IF SettledOk(o)
    THEN [data |-> o.result.data, loading |-> FALSE, error |-> Null]
  ELSE [data |-> Null, loading |-> FALSE,
        error |-> Or(o.result.error, Str("Failed to fetch user profile"))]

\* C22: when fetches of a subscription overlapped (one settled while another
\* was in flight, and none was started since) and the last of them settles,
\* the state is the one that settlement determines, whatever the earlier
\* settlements were.
C22_LastSettledWins ==
  [][lastEvent' = "settle" /\ mounted = "yes" /\ inflight = 1 /\ ~loading
       => [data |-> data', loading |-> loading', error |-> error']
            = DeterminedBy(lastOutcome')]_vars

\* C25 (as stated): at most one of loading = true, error != null and
\* data != null holds in every reachable state.
C25_Original ==
  /\ ~(loading /\ error # Null)
  /\ ~(loading /\ data # Null)
  /\ ~(error # Null /\ data # Null)

\* C25: loading = true and error != null never hold together; the data of an
\* earlier success is kept while a later fetch is loading.
C25_LoadingExcludesError ==
  /\ [](loading => error = Null)
  /\ [][fetchCount' > fetchCount /\ data # Null => loading' /\ data' = data]_vars

C25_Witness ==
  loading /\ data = Obj("u1") /\ error = Null /\ inflight = 1 /\ lastEvent = "tick"

\* C27: while the subscription is mounted, loading is true exactly when at
\* least one of its fetches is in flight.
C27_LoadingIffInFlight ==
  mounted = "yes" => (loading <=> inflight > 0)

FetchStateOf(sub) == [data |-> sub.data, loading |-> sub.loading, error |-> sub.error]
\* the step starts a fetch of subscription s, or runs the settlement of one
FetchStartOf(s) == Len(calls') = Len(calls) + 1 /\ owner'[Len(calls')] = s
SettlementOf(s) == \E i \in DOMAIN calls : owner[i] = s /\ ~applied[i] /\ applied'[i]

\* C23: the abort signal of a call is set only by the firing of the call's
\* own timer; a step of a subscription (a newer fetch, a render that turns
\* enabled off, changes the userId or replaces the interval timer, an
\* unmount) leaves every call issued before as it is, and a call that has
\* settled can always run the completion step of the fetch that awaits it.
C23_OnlyOwnTimerAborts ==
  /\ [][\A i \in DOMAIN calls :
          calls'[i].aborted /\ ~calls[i].aborted
            => calls[i].timer = "pending" /\ calls'[i].timer = "fired"]_vars
  /\ [][subs' # subs => \A i \in DOMAIN calls : calls'[i] = calls[i]]_vars
  /\ [](\A i \in DOMAIN calls : calls[i].pc = "done" /\ ~applied[i] => ENABLED SubSettled(i))

C23_Witness ==
  \E i \in DOMAIN calls :
    /\ subs[owner[i]].mounted = "torn" /\ subs[owner[i]].loading
    /\ \A j \in DOMAIN calls : owner[j] = owner[i] => applied[j]
    /\ ~calls[i].aborted /\ calls[i].timer = "cleared"
    /\ calls[i].result.success = JTrue

\* C24: a fetch start or a settlement of one subscription leaves data,
\* loading and error of every other subscription unchanged; no step changes
\* the client, and every call is made with the token, base URL and default
\* timeout the client was constructed with.
C24_SubscriptionsAreIsolated ==
  /\ [][\A s \in Subs, t \in Subs :
          s # t /\ (FetchStartOf(t) \/ SettlementOf(t))
            => FetchStateOf(subs'[s]) = FetchStateOf(subs[s])]_vars
  /\ [][client' = client]_vars
  /\ [](\A i \in DOMAIN calls :
          /\ calls[i].timerMs = IF calls[i].opts.hasTimeout THEN calls[i].opts.timeout
                                                            ELSE DEFAULT_TIMEOUT
          /\ calls[i].reqURL = "https://" \o DEFAULT_ENDPOINT
                                 \o "/api/miniapps-user/profile/" \o calls[i].userId.v
          /\ calls[i].reqHeaders["Authorization"] = "Bearer tok")

C24_Witness ==
  /\ Len(calls) = 2 /\ owner[1] # owner[2]
  /\ calls[1].timerMs = 5000 /\ calls[2].timerMs = DEFAULT_TIMEOUT
  /\ applied[1] /\ ~applied[2]
  /\ subs[owner[1]].data = Obj("u1") /\ ~subs[owner[1]].loading
  /\ subs[owner[2]].data = Null /\ subs[owner[2]].loading /\ subs[owner[2]].error = Null

\* ------------------------------------------------ properties of debounce
\* C30: every invocation of func comes right after the call that set its
\* timer, with no other call and no other invocation in between, at least
\* delay after that call and with the arguments of that call; so a call that
\* a later call superseded never invokes func, and at most one timer is
\* pending.
C30_DebounceInvokesLastCall ==
  /\ Cardinality(timeouts) <= 1
  /\ \A k \in DOMAIN log :
       log[k].kind = "invoke" =>
         /\ k > 1
         /\ log[k - 1].kind = "call"
         /\ log[k].id = log[k - 1].id
         /\ log[k].args = log[k - 1].args
         /\ log[k].at >= log[k - 1].at + delay

C30_Witness ==
  /\ Len(log) = 3
  /\ log[1].kind = "call" /\ log[1].args = "a" /\ log[1].at = 0
  /\ log[2].kind = "call" /\ log[2].args = "b" /\ log[2].at = 1
  /\ log[3].kind = "invoke" /\ log[3].args = "b" /\ log[3].at = 3
  /\ delay = 2 /\ timeouts = {}

=============================================================================
